---- MODULE Spec2Model ----
(***************************************************************************)
(* Order lifecycle and payment reconciliation of the Jazjo server          *)
(* (src/server/index.mjs): createOrder, updateOrderStatus and              *)
(* markOrderPaidFromWebhook acting on the rows of the hosted store         *)
(* (products, orders, order_items, order_status_events, payments).         *)
(*                                                                         *)
(* Representation.  An order's order_code and its row id are its index in  *)
(* `orders`; a product's row id is its sku.  The checkout session the      *)
(* gateway opens for order i has identifier i; 0 stands for null.  Text    *)
(* that the code inspects character by character (the payment method) is a *)
(* sequence of one-character strings; every other text is a string.        *)
(* Amounts are integers.  Every handler runs to completion as one step and *)
(* every store call succeeds.  A call that throws or returns early writes  *)
(* nothing: it is no step, and what it answers is given by the operators   *)
(* createOrderError, updateOrderStatusError, updateOrderStatusStatus and   *)
(* markOrderPaidOutcome of the state it is made in.                        *)
(***************************************************************************)
EXTENDS Integers, Sequences, FiniteSets, TLC

\* ------------------------------------------------------------------ bounds
MaxOrders  == 1     \* orders that createOrder may insert
MaxEvents  == 4     \* rows the order_status_events table may hold
MaxUpdates == 2     \* of these, rows appended by updateOrderStatus
MaxQty     == 1     \* largest quantity of one cart line
MaxItems   == 2     \* largest number of cart lines in a payload
MaxExchanges == 1   \* HTTP exchanges followed after a start of the server

\* ------------------------------------------------------- program constants
FREE_DELIVERY_MIN == 800
DELIVERY_FEE      == 60

NULL == 0
NO_EVENT == <<>>     \* a null provider_event_id; event identifiers are pairs

SKUs      == {"P001", "P002"}
UnknownSku == "P999"
\* The unit prices the catalog may give each product.
Prices    == [s \in SKUs |-> IF s = "P001" THEN {0, 400} ELSE {400}]
Users     == {"u1"}
StaffRoles == {"staff"}

QRPH       == <<"Q", "R", "P", "H">>
LowerQrph  == <<"q", "r", "p", "h">>
COD        == <<"C", "O", "D">>
PaymentMethods == {<<>>, COD}

DbStatuses == {"pending_payment", "order_placed", "preparing", "in_transit",
               "out_for_delivery", "delivered", "cancelled"}
StatusInputs == DbStatuses \cup {"Preparing", " preparing ", "Shipped"}
\* The statuses staff move orders to in the runs explored.
StatusTargets == {"preparing", "Preparing", "delivered", "cancelled", "Shipped"}

NOTE_CREATED_QRPH == "Order created. Awaiting QRPH payment."
NOTE_CREATED_WEB  == "Order created from web checkout."
STOCK_MARKER_NOTE == "QRPH payment confirmed via PayMongo webhook. Stock deducted."
NOTE_CONFIRMED    == "QRPH payment confirmed via PayMongo webhook."

VARIABLES
    products,              \* sku -> [price, stock_cases, is_active]
    orders,                \* sequence of order header rows
    order_items,           \* per order: set of item rows
    order_status_events,   \* per order: sequence of [status, note, changed_by]
    payments,              \* per order: the payment row
    stockDeductions,       \* per order: completed runs of deductStockForOrder
    PAYMONGO_WEBHOOK_SECRET,  \* the webhook secret the server was started with
    http,                  \* the last HTTP exchange: what was asked, what was answered
    calls                  \* per handler execution: its arguments, position and locals

vars == <<products, orders, order_items, order_status_events, payments,
          stockDeductions, PAYMONGO_WEBHOOK_SECRET, http, calls>>
store == <<products, orders, order_items, order_status_events, payments,
           stockDeductions>>

\* ---------------------------------------------------------------- helpers
\* Webhook secrets as character sequences: unset, the placeholder of the
\* sample .env (it contains "..."), and a real one.
NoSecret          == <<>>
PlaceholderSecret == <<"w", "h", ".", ".", ".">>
LiveSecret        == <<"w", "h", "s", "k">>

\* An HTTP exchange: the endpoint, what requireAuth made of the request, what
\* the signature check made of it, the handler's own outcome, the order code
\* the request named, the status and error body of the response, the codes of
\* the orders a GET returned, and the number of the exchange since the server
\* started.
Exchange(endpoint, auth, verified, outcome, orderCode, status, error) ==
    [endpoint |-> endpoint, auth |-> auth, verified |-> verified,
     outcome |-> outcome, orderCode |-> orderCode, status |-> status,
     error |-> error, orders |-> {}, n |-> http.n + 1]
NoExchange ==
    [endpoint |-> "", auth |-> "", verified |-> "", outcome |-> "",
     orderCode |-> 0, status |-> 0, error |-> "", orders |-> {}, n |-> 0]

\* A thrown error: its message and, where the message names one, the product.
Err(message, name) == [message |-> message, name |-> name]
NoError == Err("", "")

Max(a, b) == IF a >= b THEN a ELSE b

\* The handler executions followed step by step, one store call at a time.
\* The claims about overlap speak of two executions.
Calls == {1, 2}

NoProfileArg == [user_id |-> "", role |-> ""]
NoPayload ==
    [customerName |-> "", contact |-> "", address |-> "", paymentMethod |-> <<>>,
     items |-> <<>>]
NoItem == [sku |-> "", unit_price |-> 0, qty |-> 0, line_total |-> 0]

\* An execution that has not started: op names the handler, pc the store call
\* it is about to make ("returned" and "threw" once it is over), then the
\* arguments, then the handler's local variables.
NoCall ==
    [op |-> "", pc |-> "", result |-> "",
     orderCode |-> NULL, checkoutSessionId |-> NULL, paymentId |-> NULL,
     eventId |-> NO_EVENT, nextStatus |-> "", profile |-> NoProfileArg,
     payload |-> NoPayload,
     order |-> NULL, session |-> NULL, items |-> {}, item |-> NoItem, current |-> 0]

NoCalls == [c \in Calls |-> NoCall]

ToUpperChar(c) ==
    CASE c = "q" -> "Q" [] c = "r" -> "R" [] c = "p" -> "P" [] c = "h" -> "H"
      [] c = "c" -> "C" [] c = "o" -> "O" [] c = "d" -> "D" [] OTHER -> c

toUpperCase(s) == [i \in 1..Len(s) |-> ToUpperChar(s[i])]

includes(s, sub) ==
    \E i \in 1..(Len(s) + 1) :
        /\ i + Len(sub) - 1 <= Len(s)
        /\ SubSeq(s, i, i + Len(sub) - 1) = sub

\* Mutation: the comparison without the upper-casing, against lower case.
isQrphMethod_CaseSensitive(method) == includes(method, LowerQrph)

isQrphMethod(method) == includes(toUpperCase(method), QRPH)

trim(s) == IF s = " preparing " THEN "preparing" ELSE s

uiStatusToDbStatus(status) ==
    LET t == trim(status) IN
    CASE t = "Order Placed"     -> "order_placed"
      [] t = "Preparing"        -> "preparing"
      [] t = "In Transit"       -> "in_transit"
      [] t = "Out for Delivery" -> "out_for_delivery"
      [] t = "Delivered"        -> "delivered"
      [] t = "Cancelled"        -> "cancelled"
      [] t \in DbStatuses       -> t
      [] OTHER                  -> ""

toUiStatus(dbStatus) ==
    CASE dbStatus \in {"pending_payment", "order_placed"} -> "Order Placed"
      [] dbStatus = "preparing"        -> "Preparing"
      [] dbStatus = "in_transit"       -> "In Transit"
      [] dbStatus = "out_for_delivery" -> "Out for Delivery"
      [] dbStatus = "delivered"        -> "Delivered"
      [] dbStatus = "cancelled"        -> "Cancelled"
      [] OTHER                         -> dbStatus

RECURSIVE SumLen(_)
SumLen(seqs) == IF seqs = <<>> THEN 0 ELSE Len(Head(seqs)) + SumLen(Tail(seqs))

\* Rows of order_status_events in the table, and those updateOrderStatus wrote.
eventCount == SumLen(order_status_events)
updateCount ==
    SumLen([i \in 1..Len(order_status_events) |->
               SelectSeq(order_status_events[i], LAMBDA e : e.changed_by # "")])

RECURSIVE SumLineTotals(_)
SumLineTotals(rows) ==
    IF rows = {} THEN 0
    ELSE LET r == CHOOSE x \in rows : TRUE
         IN  r.line_total + SumLineTotals(rows \ {r})

\* Mutation: the POST replaces the rows the order already has.
insertStatusEvents_Replace(log, rows) == rows

\* A POST to order_status_events: the rows are added after those of the order.
insertStatusEvents(log, rows) == log \o rows

\* ------------------------------------------------------------------ inputs
\* Cart lines as the client sends them; the client's own price rides along.
ItemInputs == [productId : SKUs, qty : 1..MaxQty, price : {1}]

\* Carts: up to MaxItems well-formed lines, and the malformed ones (no line,
\* no product id, quantity zero, a product the catalog does not have).
ItemLists ==
    UNION {[1..n -> ItemInputs] : n \in 1..MaxItems}
    \cup {<<>>,
          <<[productId |-> "", qty |-> 1, price |-> 1]>>,
          <<[productId |-> "P001", qty |-> 0, price |-> 1]>>,
          <<[productId |-> "P001", qty |-> 1, price |-> 1],
            [productId |-> UnknownSku, qty |-> 1, price |-> 1]>>}

\* Request bodies of POST /api/orders: every cart with complete customer
\* fields, and one cart with each customer field left empty in turn.
CustomerFields ==
    {f \in [customerName : {"", "Ana"}, contact : {"", "0917"}, address : {"", "Cebu"}] :
        Cardinality({k \in {"customerName", "contact", "address"} : f[k] = ""}) = 1}

Payloads ==
    {[customerName |-> "Ana", contact |-> "0917", address |-> "Cebu",
      paymentMethod |-> m, items |-> its] :
        m \in PaymentMethods, its \in ItemLists}
    \cup {[customerName |-> f.customerName, contact |-> f.contact, address |-> f.address,
           paymentMethod |-> COD,
           items |-> <<[productId |-> "P001", qty |-> 1, price |-> 1]>>] :
             f \in CustomerFields}

AuthProfiles == [user_id : Users, role : StaffRoles \cup {"customer"}]

\* The paid events the gateway can deliver: two per checkout session it has
\* opened (one carrying the order code in its metadata, one without), and one
\* whose resource resolves to no order.  A delivery may be repeated.
GatewayEvents ==
    {[id |-> <<NULL, 1>>, order_code |-> NULL, checkout_session_id |-> NULL,
      payment_id |-> NULL]}
    \cup {[id |-> <<orders[i].paymongo_checkout_session_id, 1>>,
           order_code |-> i,
           checkout_session_id |-> orders[i].paymongo_checkout_session_id,
           payment_id |-> i] :
            i \in {j \in 1..Len(orders) : orders[j].paymongo_checkout_session_id # NULL}}
    \cup {[id |-> <<orders[i].paymongo_checkout_session_id, 2>>,
           order_code |-> NULL,
           checkout_session_id |-> orders[i].paymongo_checkout_session_id,
           payment_id |-> NULL] :
            i \in {j \in 1..Len(orders) : orders[j].paymongo_checkout_session_id # NULL}}

\* -------------------------------------------------------------- createOrder
\* Mutation: one entry per cart line, equal SKUs not merged.
skuQtyOf_NoMerge(items) ==
    [k \in 1..Len(items) |-> [sku |-> items[k].productId, qty |-> items[k].qty]]

\* The Map skuQty, as the sequence of its entries in insertion order.
RECURSIVE skuQtyOf(_)
skuQtyOf(items) ==
    IF items = <<>> THEN <<>>
    ELSE LET init == skuQtyOf(SubSeq(items, 1, Len(items) - 1))
             it   == items[Len(items)]
         IN  IF \E k \in 1..Len(init) : init[k].sku = it.productId
             THEN [k \in 1..Len(init) |->
                      IF init[k].sku = it.productId
                      THEN [sku |-> init[k].sku, qty |-> init[k].qty + it.qty]
                      ELSE init[k]]
             ELSE Append(init, [sku |-> it.productId, qty |-> it.qty])

\* Mutation: the catalog read returns no row.
getProductsBySkus_None(skus) == {}

getProductsBySkus(skus) == {s \in skus : s \in DOMAIN products}

\* Mutation: the row is priced with the price the client sent.
itemRowOf_ClientPrice(entry) ==
    [sku |-> entry.sku, unit_price |-> 1, qty |-> entry.qty, line_total |-> 1 * entry.qty]

itemRowOf(entry) ==
    LET p         == products[entry.sku]
        unitPrice == p.price
    IN  [sku |-> entry.sku, unit_price |-> unitPrice, qty |-> entry.qty,
         line_total |-> unitPrice * entry.qty]

deliveryFeeOf(subtotal) == IF subtotal >= FREE_DELIVERY_MIN THEN 0 ELSE DELIVERY_FEE

\* Mutation: stock is never found insufficient.
hasInsufficientStock_Never(p, qty) == FALSE

hasInsufficientStock(p, qty) == p.stock_cases < qty

\* The error createOrder throws for this payload in the current store.
createOrderError(payload, authProfile) ==
    LET items  == payload.items
        skuQty == skuQtyOf(items)
        keys   == {skuQty[k].sku : k \in 1..Len(skuQty)}
        bad(k) == \/ ~products[skuQty[k].sku].is_active
                  \/ hasInsufficientStock(products[skuQty[k].sku], skuQty[k].qty)
    IN  IF \/ authProfile.user_id = "" \/ payload.customerName = ""
           \/ payload.contact = "" \/ payload.address = "" \/ Len(items) = 0
        THEN Err("Missing required order fields.", "")
        ELSE IF \E k \in 1..Len(items) : items[k].productId = "" \/ items[k].qty <= 0
        THEN Err("Invalid order item.", "")
        ELSE IF Cardinality(getProductsBySkus(keys)) # Len(skuQty)
        THEN Err("Some products were not found in Supabase.", "")
        ELSE IF \E k \in 1..Len(skuQty) : bad(k)
        THEN LET k == CHOOSE j \in 1..Len(skuQty) :
                          bad(j) /\ \A i \in 1..(j - 1) : ~bad(i)
             IN  IF ~products[skuQty[k].sku].is_active
                 THEN Err("is inactive.", skuQty[k].sku)
                 ELSE Err("has insufficient stock.", skuQty[k].sku)
        ELSE NoError

createOrder(payload, authProfile) ==
    LET paymentMethod == IF payload.paymentMethod = <<>> THEN QRPH
                         ELSE payload.paymentMethod
        error    == createOrderError(payload, authProfile)
        skuQty   == skuQtyOf(payload.items)
        itemRows == {itemRowOf(skuQty[k]) : k \in 1..Len(skuQty)}
        subtotal == SumLineTotals(itemRows)
        deliveryFee == deliveryFeeOf(subtotal)
        total    == subtotal + deliveryFee
        orderCode == Len(orders) + 1
        useQrph  == isQrphMethod(paymentMethod)
        checkoutSessionId == IF useQrph THEN orderCode ELSE NULL
    IN  /\ eventCount < MaxEvents
        /\ error = NoError
        /\      orders' = Append(orders,
                      [user_id |-> authProfile.user_id,
                       subtotal |-> subtotal,
                       delivery_fee |-> deliveryFee,
                       total |-> total,
                       status |-> IF useQrph THEN "pending_payment" ELSE "order_placed",
                       payment_status |-> IF useQrph THEN "pending" ELSE "pending",
                       payment_method |-> paymentMethod,
                       paymongo_checkout_session_id |-> checkoutSessionId,
                       paymongo_payment_id |-> NULL])
                /\ order_items' = Append(order_items, itemRows)
                /\ order_status_events' = Append(order_status_events,
                      <<[status |-> IF useQrph THEN "pending_payment" ELSE "order_placed",
                         note |-> IF useQrph THEN NOTE_CREATED_QRPH ELSE NOTE_CREATED_WEB,
                         changed_by |-> ""]>>)
                /\ payments' = Append(payments,
                      [status |-> "pending", amount |-> total,
                       provider_event_id |-> NO_EVENT,
                       provider_checkout_session_id |-> checkoutSessionId,
                       provider_payment_id |-> NULL])
                /\ stockDeductions' = Append(stockDeductions, 0)
                /\ UNCHANGED products

\* -------------------------------------------------------- updateOrderStatus
findOrderByCode(orderCode) ==
    IF orderCode \in 1..Len(orders) THEN orderCode ELSE NULL

\* Mutation: the payment guard never applies.
unpaidQrph_Never(order) == FALSE

unpaidQrph(order) ==
    isQrphMethod(order.payment_method) /\ order.payment_status # "paid"

allowedBeforePayment == {"pending_payment", "cancelled"}

\* The error updateOrderStatus throws for this request in the current store.
updateOrderStatusError(orderCode, nextStatusInput) ==
    LET nextStatus == uiStatusToDbStatus(nextStatusInput)
        id         == findOrderByCode(orderCode)
    IN  IF nextStatus = "" THEN Err("Invalid status.", "")
        ELSE IF id = NULL THEN Err("Order not found.", "")
        ELSE IF unpaidQrph(orders[id]) /\ nextStatus \notin allowedBeforePayment
        THEN Err("Cannot move QRPH order status until payment is marked paid.", "")
        ELSE NoError

\* The HTTP status the server answers the request with.
updateOrderStatusStatus(orderCode, nextStatusInput) ==
    LET error == updateOrderStatusError(orderCode, nextStatusInput)
    IN  IF error = NoError THEN 200
        ELSE IF error.message = "Cannot move QRPH order status until payment is marked paid."
        THEN 409
        ELSE 500

updateOrderStatus(orderCode, nextStatusInput, actorProfile) ==
    LET nextStatus == uiStatusToDbStatus(nextStatusInput)
        id         == findOrderByCode(orderCode)
    IN  /\ updateOrderStatusError(orderCode, nextStatusInput) = NoError
        /\ eventCount < MaxEvents
        /\ updateCount < MaxUpdates
        /\ orders' = [orders EXCEPT ![id].status = nextStatus]
        /\ order_status_events' = [order_status_events EXCEPT ![id] =
               insertStatusEvents(@,
                   <<[status |-> nextStatus,
                      note |-> <<"Status updated to", toUiStatus(nextStatus),
                                 "by", actorProfile.role>>,
                      changed_by |-> actorProfile.user_id]>>)]
        /\ UNCHANGED <<products, order_items, payments, stockDeductions>>

\* ------------------------------------------------- markOrderPaidFromWebhook
\* Mutation: an event without a session resolves to any order.
findOrderByCheckoutSessionId_Any(checkoutSessionId) ==
    IF checkoutSessionId = NULL THEN 1..Len(orders)
    ELSE {i \in 1..Len(orders) :
              orders[i].paymongo_checkout_session_id = checkoutSessionId}

findOrderByCheckoutSessionId(checkoutSessionId) ==
    IF checkoutSessionId = NULL THEN {}
    ELSE {i \in 1..Len(orders) :
              orders[i].paymongo_checkout_session_id = checkoutSessionId}

\* Mutation: the note is always reported as present.
hasOrderStatusEventNote_Always(orderId, note) == TRUE

hasOrderStatusEventNote(orderId, note) ==
    \E k \in 1..Len(order_status_events[orderId]) :
        order_status_events[orderId][k].note = note

\* Mutation: the subtraction without the floor.
nextStock_NoFloor(current, qty) == current - qty

nextStock(current, qty) == Max(0, current - qty)

\* The products table after the loop of deductStockForOrder over these rows.
RECURSIVE deductStockForOrder(_, _)
deductStockForOrder(prods, rows) ==
    IF rows = {} THEN prods
    ELSE LET item == CHOOSE x \in rows : TRUE
             rest == deductStockForOrder(prods, rows \ {item})
         IN  IF item.qty > 0 /\ item.sku \in DOMAIN rest
             THEN [rest EXCEPT ![item.sku].stock_cases = nextStock(@, item.qty)]
             ELSE rest

\* The orders the event resolves to: by code when the code is present and
\* found, else by the stored checkout-session identifier.
resolveOrder(orderCode, checkoutSessionId) ==
    IF orderCode # NULL /\ findOrderByCode(orderCode) # NULL
    THEN {findOrderByCode(orderCode)}
    ELSE findOrderByCheckoutSessionId(checkoutSessionId)

\* Mutation: no event is ever recognised as already recorded.
isDuplicateEvent_Never(eventId) == FALSE

isDuplicateEvent(eventId) ==
    \E i \in 1..Len(payments) : payments[i].provider_event_id = eventId

\* Mutation: the PATCH of an order already paid sets it back to pending.
paidOrderRow_Toggle(order, checkoutSessionId, paymentId) ==
    [order EXCEPT !.payment_status = IF @ = "paid" THEN "pending" ELSE "paid",
                  !.status = "order_placed",
                  !.paymongo_checkout_session_id =
                      IF checkoutSessionId # NULL THEN checkoutSessionId ELSE @,
                  !.paymongo_payment_id = paymentId]

\* Mutation: the PATCH leaves the status as it was.
paidOrderRow_KeepStatus(order, checkoutSessionId, paymentId) ==
    [order EXCEPT !.payment_status = "paid",
                  !.paymongo_checkout_session_id =
                      IF checkoutSessionId # NULL THEN checkoutSessionId ELSE @,
                  !.paymongo_payment_id = paymentId]

\* The order row after the PATCH that marks it paid.
paidOrderRow(order, checkoutSessionId, paymentId) ==
    [order EXCEPT !.payment_status = "paid",
                  !.status = "order_placed",
                  !.paymongo_checkout_session_id =
                      IF checkoutSessionId # NULL THEN checkoutSessionId ELSE @,
                  !.paymongo_payment_id = paymentId]

\* Mutation: the marker row is never written.
stockMarkerEvents_None(stockAlreadyDeducted) == <<>>

\* The marker row appended after a deduction; nothing when it was skipped.
stockMarkerEvents(stockAlreadyDeducted) ==
    IF stockAlreadyDeducted THEN <<>>
    ELSE <<[status |-> "order_placed", note |-> STOCK_MARKER_NOTE, changed_by |-> ""]>>

\* The payment row after the PATCH that records the event.
paidPaymentRow(payment, checkoutSessionId, paymentId, eventId) ==
    [payment EXCEPT !.status = "paid",
                    !.provider_event_id = eventId,
                    !.provider_checkout_session_id = checkoutSessionId,
                    !.provider_payment_id = paymentId]

\* How the call ends: the early return, the throw, or the writes.
markOrderPaidOutcome(orderCode, checkoutSessionId, eventId) ==
    IF isDuplicateEvent(eventId) THEN "duplicate"
    ELSE IF resolveOrder(orderCode, checkoutSessionId) = {}
    THEN "Order not found for webhook."
    ELSE "paid"

markOrderPaidFromWebhook(orderCode, checkoutSessionId, paymentId, eventId) ==
    /\ markOrderPaidOutcome(orderCode, checkoutSessionId, eventId) = "paid"
    /\ \E id \in resolveOrder(orderCode, checkoutSessionId) :
         LET stockAlreadyDeducted == hasOrderStatusEventNote(id, STOCK_MARKER_NOTE)
             markerEvents == stockMarkerEvents(stockAlreadyDeducted)
         IN  /\ eventCount + Len(markerEvents) + 1 <= MaxEvents
             /\ orders' = [orders EXCEPT ![id] =
                              paidOrderRow(@, checkoutSessionId, paymentId)]
             /\ products' = IF stockAlreadyDeducted THEN products
                            ELSE deductStockForOrder(products, order_items[id])
             /\ stockDeductions' = IF stockAlreadyDeducted THEN stockDeductions
                                   ELSE [stockDeductions EXCEPT ![id] = @ + 1]
             /\ payments' = [payments EXCEPT ![id] =
                              paidPaymentRow(@, checkoutSessionId, paymentId, eventId)]
             /\ order_status_events' = [order_status_events EXCEPT ![id] =
                    insertStatusEvents(@,
                        markerEvents \o
                        <<[status |-> "order_placed", note |-> NOTE_CONFIRMED,
                           changed_by |-> ""]>>)]
             /\ UNCHANGED order_items

\* ------------------------------------------------------- catalog maintenance
\* Products are edited out of band: an administrator changes a unit price.
changeProductPrice(sku, price) ==
    /\ products[sku].price # price
    /\ products' = [products EXCEPT ![sku].price = price]
    /\ UNCHANGED <<orders, order_items, order_status_events, payments, stockDeductions>>

\* ------------------------------------------------------------ specification
InitialStock == [s \in SKUs |-> IF s = "P001" THEN 3 ELSE 1]

Init ==
    /\ products = [s \in SKUs |->
                      [price |-> 400, stock_cases |-> InitialStock[s], is_active |-> TRUE]]
    /\ orders = <<>>
    /\ order_items = <<>>
    /\ order_status_events = <<>>
    /\ payments = <<>>
    /\ stockDeductions = <<>>
    /\ PAYMONGO_WEBHOOK_SECRET = LiveSecret
    /\ http = NoExchange
    /\ calls = NoCalls

\* Spec follows the handler functions and the store; the exchanges around
\* them are followed by SpecHttp below.
CreateOrder ==
    /\ Len(orders) < MaxOrders
    /\ \E payload \in Payloads, authProfile \in AuthProfiles :
           createOrder(payload, authProfile)
    /\ UNCHANGED <<PAYMONGO_WEBHOOK_SECRET, http, calls>>

UpdateOrderStatus ==
    /\ \E orderCode \in 1..MaxOrders, nextStatusInput \in StatusTargets,
          actorProfile \in [user_id : Users, role : StaffRoles] :
           updateOrderStatus(orderCode, nextStatusInput, actorProfile)
    /\ UNCHANGED <<PAYMONGO_WEBHOOK_SECRET, http, calls>>

MarkOrderPaidFromWebhook ==
    /\ \E event \in GatewayEvents :
           markOrderPaidFromWebhook(event.order_code, event.checkout_session_id,
                                    event.payment_id, event.id)
    /\ UNCHANGED <<PAYMONGO_WEBHOOK_SECRET, http, calls>>

ChangeProductPrice ==
    /\ \E sku \in SKUs : \E price \in Prices[sku] : changeProductPrice(sku, price)
    /\ UNCHANGED <<PAYMONGO_WEBHOOK_SECRET, http, calls>>

Next ==
    \/ CreateOrder
    \/ UpdateOrderStatus
    \/ MarkOrderPaidFromWebhook
    \/ ChangeProductPrice

Spec == Init /\ [][Next]_vars

\* The store as a restarted server may find it: empty, or holding one unpaid
\* QRPH order for P001 placed earlier, the product's stock having moved since.
MaxStock == 3

existingItemRows(qty) ==
    {[sku |-> "P001", unit_price |-> 400, qty |-> qty, line_total |-> 400 * qty]}

InitStock ==
    \/ Init
    \/ \E s \in 0..MaxStock, q \in 1..(MaxQty * MaxItems) :
          /\ products = [k \in SKUs |->
                 [price |-> 400, stock_cases |-> IF k = "P001" THEN s ELSE InitialStock[k],
                  is_active |-> TRUE]]
          /\ orders = <<[user_id |-> "u1",
                         subtotal |-> 400 * q,
                         delivery_fee |-> deliveryFeeOf(400 * q),
                         total |-> 400 * q + deliveryFeeOf(400 * q),
                         status |-> "pending_payment",
                         payment_status |-> "pending",
                         payment_method |-> QRPH,
                         paymongo_checkout_session_id |-> 1,
                         paymongo_payment_id |-> NULL]>>
          /\ order_items = <<existingItemRows(q)>>
          /\ order_status_events =
                 <<<<[status |-> "pending_payment", note |-> NOTE_CREATED_QRPH,
                      changed_by |-> ""]>>>>
          /\ payments = <<[status |-> "pending",
                           amount |-> 400 * q + deliveryFeeOf(400 * q),
                           provider_event_id |-> NO_EVENT,
                           provider_checkout_session_id |-> 1,
                           provider_payment_id |-> NULL]>>
          /\ stockDeductions = <<0>>
          /\ PAYMONGO_WEBHOOK_SECRET = LiveSecret
          /\ http = NoExchange
          /\ calls = NoCalls

SpecStock == InitStock /\ [][Next]_vars

\* ----------------------------------------------------------- HTTP endpoints
\* Authorization headers as the pair of scheme and credential; <<>> is a
\* request without the header.
AuthorizationHeaders ==
    {<<>>, <<"Basic", "tok-staff">>, <<"Bearer", "">>,
     <<"Bearer", "tok-expired">>, <<"Bearer", "tok-ghost">>,
     <<"bearer", "tok-customer">>, <<"Bearer", "tok-staff">>}

toLowerCase(s) == IF s \in {"Bearer", "BEARER"} THEN "bearer" ELSE s

getBearerToken(header) ==
    IF header = <<>> THEN ""
    ELSE IF toLowerCase(header[1]) # "bearer" THEN ""
    ELSE header[2]

\* The sessions the auth service knows, and the rows of the profiles table.
Sessions == [t \in {"tok-customer", "tok-staff", "tok-ghost"} |->
                CASE t = "tok-customer" -> "u1"
                  [] t = "tok-staff"    -> "u2"
                  [] OTHER              -> "u3"]
ProfileRows == [u \in {"u1", "u2"} |->
                   [user_id |-> u, role |-> IF u = "u1" THEN "customer" ELSE "staff"]]
NoProfile == [user_id |-> "", role |-> ""]

\* The auth service answers a token it does not know with an error.
supabaseAuthUser(accessToken) ==
    IF accessToken \in DOMAIN Sessions THEN Sessions[accessToken] ELSE ""

getProfileByUserId(userId) ==
    IF userId \in DOMAIN ProfileRows THEN ProfileRows[userId] ELSE NoProfile

\* What requireAuth makes of the request: the profile, or the error it throws
\* with the status the error carries (0: none).
AuthResult(auth, status, error, profile) ==
    [auth |-> auth, status |-> status, error |-> error, profile |-> profile]

\* Mutation: the role of the profile is not compared with the allowed roles.
requireAuth_NoRoleCheck(header, allowedRoles) ==
    LET token    == getBearerToken(header)
        authUser == supabaseAuthUser(token)
        profile  == getProfileByUserId(authUser)
    IN  IF token = ""
        THEN AuthResult("missing token", 401, "Missing bearer token", NoProfile)
        ELSE IF authUser = ""
        THEN AuthResult("invalid token", 0, "Invalid token", NoProfile)
        ELSE IF profile = NoProfile
        THEN AuthResult("no profile", 403, "Profile not found", NoProfile)
        ELSE AuthResult("ok", 0, "", profile)

requireAuth(header, allowedRoles) ==
    LET token    == getBearerToken(header)
        authUser == supabaseAuthUser(token)
        profile  == getProfileByUserId(authUser)
    IN  IF token = ""
        THEN AuthResult("missing token", 401, "Missing bearer token", NoProfile)
        ELSE IF authUser = ""
        THEN AuthResult("invalid token", 0, "Invalid token", NoProfile)
        ELSE IF profile = NoProfile
        THEN AuthResult("no profile", 403, "Profile not found", NoProfile)
        ELSE IF allowedRoles # {} /\ profile.role \notin allowedRoles
        THEN AuthResult("forbidden", 403, "Forbidden", NoProfile)
        ELSE AuthResult("ok", 0, "", profile)

\* The server's catch: the status the error carries, or 500.
errorStatus(status) == IF status = 0 THEN 500 ELSE status

\* POST /api/orders
PostOrders(header, payload) ==
    LET auth  == requireAuth(header, {"customer", "admin", "staff"})
        error == createOrderError(payload, auth.profile)
    IN  IF auth.auth # "ok"
        THEN /\ http' = Exchange("POST /api/orders", auth.auth, "", "", NULL,
                                 errorStatus(auth.status), auth.error)
             /\ UNCHANGED store
        ELSE IF error # NoError
        THEN /\ http' = Exchange("POST /api/orders", "ok", "", "error", NULL,
                                 errorStatus(0), error.message)
             /\ UNCHANGED store
        ELSE /\ Len(orders) < MaxOrders
             /\ createOrder(payload, auth.profile)
             /\ http' = Exchange("POST /api/orders", "ok", "", "created",
                                 Len(orders) + 1, 201, "")

\* PATCH /api/orders/:code/status
PatchOrderStatus(header, orderCode, status) ==
    LET auth  == requireAuth(header, {"admin", "staff"})
        error == updateOrderStatusError(orderCode, status)
    IN  IF auth.auth # "ok"
        THEN /\ http' = Exchange("PATCH /api/orders/:code/status", auth.auth, "", "",
                                 orderCode, errorStatus(auth.status), auth.error)
             /\ UNCHANGED store
        ELSE IF error # NoError
        THEN /\ http' = Exchange("PATCH /api/orders/:code/status", "ok", "", "error",
                                 orderCode, updateOrderStatusStatus(orderCode, status),
                                 error.message)
             /\ UNCHANGED store
        ELSE /\ updateOrderStatus(orderCode, status, auth.profile)
             /\ http' = Exchange("PATCH /api/orders/:code/status", "ok", "", "updated",
                                 orderCode, 200, "")

\* Mutation: the orders are not filtered by their owner.
listOrdersForUserId_All(userId) == 1..Len(orders)

\* The codes of the orders the user owns, in place of the orders themselves.
listOrdersForUserId(userId) ==
    IF userId = "" THEN {}
    ELSE {id \in 1..Len(orders) : orders[id].user_id = userId}

getOrderForUserId(orderCode, userId) ==
    IF orderCode \in listOrdersForUserId(userId) THEN orderCode ELSE NULL

\* GET /api/orders
GetOrders(header) ==
    LET auth == requireAuth(header, {})
    IN  /\ http' = IF auth.auth # "ok"
                   THEN Exchange("GET /api/orders", auth.auth, "", "", NULL,
                                 errorStatus(auth.status), auth.error)
                   ELSE [Exchange("GET /api/orders", "ok", "", "listed", NULL, 200, "")
                            EXCEPT !.orders = listOrdersForUserId(auth.profile.user_id)]
        /\ UNCHANGED store

\* What GET /api/orders/:code answers: the outcome, the status, the error of
\* the body and the order of the body.
getOrderAnswer(header, orderCode) ==
    LET auth  == requireAuth(header, {})
        order == getOrderForUserId(orderCode, auth.profile.user_id)
    IN  IF auth.auth # "ok"
        THEN [outcome |-> "", status |-> errorStatus(auth.status), error |-> auth.error,
              orders |-> {}]
        ELSE IF order = NULL
        THEN [outcome |-> "not found", status |-> 404, error |-> "Order not found",
              orders |-> {}]
        ELSE [outcome |-> "found", status |-> 200, error |-> "", orders |-> {order}]

\* GET /api/orders/:code
GetOrder(header, orderCode) ==
    LET auth   == requireAuth(header, {})
        answer == getOrderAnswer(header, orderCode)
    IN  /\ http' = [Exchange("GET /api/orders/:code", auth.auth, "", answer.outcome,
                             orderCode, answer.status, answer.error)
                        EXCEPT !.orders = answer.orders]
        /\ UNCHANGED store

\* POST /api/paymongo/webhook
\* Values of the signature header are sequences; <<>> is an absent value.
NoValue == <<>>
Timestamps == {<<"t1">>, <<"t2">>}

\* HMAC-SHA256 in hex, taken to be free of collisions: the digest determines
\* the key and the signed text "<timestamp>.<rawBody>".
hmacSha256Hex(secret, timestamp, rawBody) == <<secret, timestamp, rawBody>>

\* The header after the splits on "," and "=": a sequence of parts [k, v].
parsePaymongoSignature(headerValue) ==
    [key \in {"t", "te", "li"} |->
        LET set == {i \in 1..Len(headerValue) :
                        headerValue[i].k = key /\ headerValue[i].v # NoValue}
        IN  IF set = {} THEN NoValue
            ELSE headerValue[CHOOSE i \in set : \A j \in set : j <= i].v]

\* Mutation: only the test-mode signature is compared.
candidatesOf_TestOnly(sig) == {sig.te} \ {NoValue}

candidatesOf(sig) == {sig.te, sig.li} \ {NoValue}

\* "throws" when the secret is not configured, else "true" or "false".
verifyPaymongoWebhookSignature(rawBody, headerValue) ==
    IF PAYMONGO_WEBHOOK_SECRET = <<>> \/ includes(PAYMONGO_WEBHOOK_SECRET, <<".", ".", ".">>)
    THEN "throws"
    ELSE LET sig        == parsePaymongoSignature(headerValue)
             timestamp  == sig.t
             candidates == candidatesOf(sig)
             expected   == hmacSha256Hex(PAYMONGO_WEBHOOK_SECRET, timestamp, rawBody)
         IN  IF timestamp = NoValue \/ candidates = {} THEN "false"
             ELSE IF \E c \in candidates : c = expected THEN "true"
             ELSE "false"

EventTypes == {"checkout_session.payment.paid", "payment.paid", "payment.failed"}

\* Request bodies: each event the gateway can deliver, under each type.
RawBodies ==
    {[id |-> e.id, type |-> ty, order_code |-> e.order_code,
      checkout_session_id |-> e.checkout_session_id, payment_id |-> e.payment_id] :
        e \in GatewayEvents, ty \in EventTypes}

\* Signature headers sent with a body: signed by the gateway (test-mode or
\* live-mode signature, or both with one of them stale), and the ways a
\* header fails to match.
SignatureHeaders(rawBody) ==
    LET good  == hmacSha256Hex(LiveSecret, <<"t1">>, rawBody)
        other == hmacSha256Hex(LiveSecret, <<"t1">>, [rawBody EXCEPT !.payment_id = 9])
        wrong == hmacSha256Hex(<<"x">>, <<"t1">>, rawBody)
        t1    == [k |-> "t", v |-> <<"t1">>]
    IN  {<<t1, [k |-> "te", v |-> good]>>,
         <<t1, [k |-> "li", v |-> good]>>,
         <<t1, [k |-> "te", v |-> wrong], [k |-> "li", v |-> good]>>,
         <<>>,
         <<t1>>,
         <<[k |-> "te", v |-> good]>>,
         <<t1, [k |-> "te", v |-> NoValue], [k |-> "li", v |-> NoValue]>>,
         <<t1, [k |-> "te", v |-> other]>>,
         <<t1, [k |-> "te", v |-> wrong]>>,
         <<[k |-> "t", v |-> <<"t2">>], [k |-> "te", v |-> good]>>}

PostPaymongoWebhook(rawBody, signature) ==
    LET verified == verifyPaymongoWebhookSignature(rawBody, signature)
        outcome  == markOrderPaidOutcome(rawBody.order_code,
                                         rawBody.checkout_session_id, rawBody.id)
        endpoint == "POST /api/paymongo/webhook"
    IN  IF verified = "throws"
        THEN /\ http' = Exchange(endpoint, "", verified, "", NULL, errorStatus(500),
                                 "PayMongo webhook secret not configured.")
             /\ UNCHANGED store
        ELSE IF verified = "false"
        THEN /\ http' = Exchange(endpoint, "", verified, "", NULL, 401,
                                 "Invalid PayMongo signature")
             /\ UNCHANGED store
        ELSE IF rawBody.type \notin {"checkout_session.payment.paid", "payment.paid"}
        THEN /\ http' = Exchange(endpoint, "", verified, "ignored", NULL, 200, "")
             /\ UNCHANGED store
        ELSE IF outcome = "duplicate"
        THEN /\ http' = Exchange(endpoint, "", verified, outcome, NULL, 200, "")
             /\ UNCHANGED store
        ELSE IF outcome # "paid"
        THEN /\ http' = Exchange(endpoint, "", verified, "error", NULL, errorStatus(0),
                                 outcome)
             /\ UNCHANGED store
        ELSE /\ markOrderPaidFromWebhook(rawBody.order_code, rawBody.checkout_session_id,
                                         rawBody.payment_id, rawBody.id)
             /\ http' = Exchange(endpoint, "", verified, outcome, NULL, 200, "")

\* The carts sent to the endpoint: one line of P001, two lines of one product
\* (for P002 one more case than it has), and the malformed ones.
HttpPayloads ==
    {pl \in Payloads :
        \/ pl.items \notin UNION {[1..n -> ItemInputs] : n \in 1..MaxItems}
        \/ pl.items = <<[productId |-> "P001", qty |-> 1, price |-> 1]>>
        \/ /\ Len(pl.items) = 2
           /\ pl.items[1] = pl.items[2]
           /\ pl.items[1].qty = 1}

\* The stores a started server may find: no order yet (the second product on
\* sale or withdrawn), or one order of one case of P001 placed earlier: cash
\* on delivery, QRPH awaiting payment, or QRPH confirmed by event <<1, 1>>.
placedOrder(paymentMethod) ==
    LET useQrph == isQrphMethod(paymentMethod) IN
    [user_id |-> "u1",
     subtotal |-> 400,
     delivery_fee |-> deliveryFeeOf(400),
     total |-> 400 + deliveryFeeOf(400),
     status |-> IF useQrph THEN "pending_payment" ELSE "order_placed",
     payment_status |-> "pending",
     payment_method |-> paymentMethod,
     paymongo_checkout_session_id |-> IF useQrph THEN 1 ELSE NULL,
     paymongo_payment_id |-> NULL]

placedPayment(paymentMethod) ==
    [status |-> "pending", amount |-> 400 + deliveryFeeOf(400),
     provider_event_id |-> NO_EVENT,
     provider_checkout_session_id |-> IF isQrphMethod(paymentMethod) THEN 1 ELSE NULL,
     provider_payment_id |-> NULL]

placedEvents(paymentMethod) ==
    LET useQrph == isQrphMethod(paymentMethod) IN
    <<[status |-> IF useQrph THEN "pending_payment" ELSE "order_placed",
       note |-> IF useQrph THEN NOTE_CREATED_QRPH ELSE NOTE_CREATED_WEB,
       changed_by |-> ""]>>

catalog(stockP001, activeP002) ==
    [s \in SKUs |->
        [price |-> 400,
         stock_cases |-> IF s = "P001" THEN stockP001 ELSE InitialStock[s],
         is_active |-> IF s = "P002" THEN activeP002 ELSE TRUE]]

InitHttp ==
    /\ PAYMONGO_WEBHOOK_SECRET \in {NoSecret, PlaceholderSecret, LiveSecret}
    /\ http = NoExchange
    /\ calls = NoCalls
    /\ \/ /\ \E active \in BOOLEAN : products = catalog(InitialStock["P001"], active)
          /\ orders = <<>>
          /\ order_items = <<>>
          /\ order_status_events = <<>>
          /\ payments = <<>>
          /\ stockDeductions = <<>>
       \/ \E paymentMethod \in {COD, QRPH} :
          /\ products = catalog(InitialStock["P001"], TRUE)
          /\ orders = <<placedOrder(paymentMethod)>>
          /\ order_items = <<existingItemRows(1)>>
          /\ order_status_events = <<placedEvents(paymentMethod)>>
          /\ payments = <<placedPayment(paymentMethod)>>
          /\ stockDeductions = <<0>>
       \/ /\ products = catalog(InitialStock["P001"] - 1, TRUE)
          /\ orders = <<paidOrderRow(placedOrder(QRPH), 1, 1)>>
          /\ order_items = <<existingItemRows(1)>>
          /\ order_status_events =
                <<placedEvents(QRPH) \o stockMarkerEvents(FALSE) \o
                  <<[status |-> "order_placed", note |-> NOTE_CONFIRMED,
                     changed_by |-> ""]>>>>
          /\ payments = <<paidPaymentRow(placedPayment(QRPH), 1, 1, <<1, 1>>)>>
          /\ stockDeductions = <<1>>

HttpPostOrders ==
    /\ http.n < MaxExchanges
    /\ \E header \in AuthorizationHeaders, payload \in HttpPayloads :
           PostOrders(header, payload)
    /\ UNCHANGED <<PAYMONGO_WEBHOOK_SECRET, calls>>

HttpPatchOrderStatus ==
    /\ http.n < MaxExchanges
    /\ \E header \in AuthorizationHeaders, orderCode \in 1..MaxOrders,
          status \in StatusInputs :
           PatchOrderStatus(header, orderCode, status)
    /\ UNCHANGED <<PAYMONGO_WEBHOOK_SECRET, calls>>

HttpPostPaymongoWebhook ==
    /\ http.n < MaxExchanges
    /\ \E rawBody \in RawBodies : \E signature \in SignatureHeaders(rawBody) :
           PostPaymongoWebhook(rawBody, signature)
    /\ UNCHANGED <<PAYMONGO_WEBHOOK_SECRET, calls>>

HttpGetOrders ==
    /\ http.n < MaxExchanges
    /\ \E header \in AuthorizationHeaders : GetOrders(header)
    /\ UNCHANGED <<PAYMONGO_WEBHOOK_SECRET, calls>>

\* The codes a GET may name: those of the orders that can exist, and one more.
HttpGetOrder ==
    /\ http.n < MaxExchanges
    /\ \E header \in AuthorizationHeaders, orderCode \in 1..(MaxOrders + 1) :
           GetOrder(header, orderCode)
    /\ UNCHANGED <<PAYMONGO_WEBHOOK_SECRET, calls>>

NextHttp ==
    \/ HttpPostOrders
    \/ HttpPatchOrderStatus
    \/ HttpPostPaymongoWebhook
    \/ HttpGetOrders
    \/ HttpGetOrder

SpecHttp == InitHttp /\ [][NextHttp]_vars

\* ------------------------------------------------- handlers, call by call
\* The handlers again, one step per awaited store call, so that executions
\* can overlap and a store call can fail.  calls[c] holds what execution c
\* keeps in its local variables between two awaits.
Goto(c, pc) == [calls[c] EXCEPT !.pc = pc]
Return(c, result) == [calls[c] EXCEPT !.pc = "returned", !.result = result]
Throw(c, message) == [calls[c] EXCEPT !.pc = "threw", !.result = message]
At(c, op, pc) == calls[c].op = op /\ calls[c].pc = pc
InFlight(c) == calls[c].op # "" /\ calls[c].pc \notin {"returned", "threw"}

\* markOrderPaidFromWebhook, line 848: the call starts with the lookup of the
\* event identifier among the payment rows.
paid_existingEvent(c, event) ==
    LET call == [NoCall EXCEPT !.op = "markOrderPaidFromWebhook",
                               !.orderCode = event.order_code,
                               !.checkoutSessionId = event.checkout_session_id,
                               !.paymentId = event.payment_id,
                               !.eventId = event.id]
    IN  /\ calls[c].op = ""
        /\ calls' = [calls EXCEPT ![c] =
               IF isDuplicateEvent(event.id)
               THEN [call EXCEPT !.pc = "returned", !.result = "duplicate"]
               ELSE [call EXCEPT !.pc = "findOrder"]]
        /\ UNCHANGED store

\* line 855: the order row is read; order keeps the row's id and the
\* checkout-session identifier read with it.
paid_findOrder(c) ==
    LET found == resolveOrder(calls[c].orderCode, calls[c].checkoutSessionId)
    IN  /\ At(c, "markOrderPaidFromWebhook", "findOrder")
        /\ IF found = {}
           THEN calls' = [calls EXCEPT ![c] = Throw(c, "Order not found for webhook.")]
           ELSE \E id \in found :
                  calls' = [calls EXCEPT ![c] =
                      [calls[c] EXCEPT !.order = id,
                                       !.session = orders[id].paymongo_checkout_session_id,
                                       !.pc = "patchOrder"]]
        /\ UNCHANGED store

\* lines 858-869: the PATCH of the order row.
paid_patchOrder(c) ==
    LET id == calls[c].order
    IN  /\ At(c, "markOrderPaidFromWebhook", "patchOrder")
        /\ orders' = [orders EXCEPT ![id] =
               paidOrderRow([@ EXCEPT !.paymongo_checkout_session_id = calls[c].session],
                            calls[c].checkoutSessionId, calls[c].paymentId)]
        /\ calls' = [calls EXCEPT ![c] = Goto(c, "hasNote")]
        /\ UNCHANGED <<products, order_items, order_status_events, payments,
                       stockDeductions>>

\* line 871: the read of the stock-deduction marker.
paid_hasNote(c) ==
    LET stockAlreadyDeducted == hasOrderStatusEventNote(calls[c].order, STOCK_MARKER_NOTE)
    IN  /\ At(c, "markOrderPaidFromWebhook", "hasNote")
        /\ calls' = [calls EXCEPT ![c] =
               Goto(c, IF stockAlreadyDeducted THEN "patchPayment" ELSE "readItems")]
        /\ UNCHANGED store

\* Where the loop of deductStockForOrder goes with these rows left.
loopOver(rows) == IF rows = {} THEN "insertMarker" ELSE "readProduct"

\* The run of deductStockForOrder is over when no row is left.
runsAfter(id, rows) ==
    IF rows = {} THEN [stockDeductions EXCEPT ![id] = @ + 1] ELSE stockDeductions

\* deductStockForOrder, lines 823-827: the read of the order's item rows.
deduct_readItems(c) ==
    LET id == calls[c].order
        validItems == {i \in order_items[id] : i.sku # "" /\ i.qty > 0}
    IN  /\ At(c, "markOrderPaidFromWebhook", "readItems")
        /\ calls' = [calls EXCEPT ![c] =
               [calls[c] EXCEPT !.items = validItems, !.pc = loopOver(validItems)]]
        /\ stockDeductions' = runsAfter(id, validItems)
        /\ UNCHANGED <<products, orders, order_items, order_status_events, payments>>

\* lines 829-835: the read of the next row's product; current keeps the stock
\* that was read.  The store returns the rows in no stated order.
deduct_readProduct(c) ==
    /\ At(c, "markOrderPaidFromWebhook", "readProduct")
    /\ \E item \in calls[c].items :
         IF item.sku \in DOMAIN products
         THEN /\ calls' = [calls EXCEPT ![c] =
                     [calls[c] EXCEPT !.item = item,
                                      !.current = products[item.sku].stock_cases,
                                      !.pc = "patchProduct"]]
              /\ UNCHANGED stockDeductions
         ELSE /\ calls' = [calls EXCEPT ![c] =
                     [calls[c] EXCEPT !.items = @ \ {item},
                                      !.pc = loopOver(calls[c].items \ {item})]]
              /\ stockDeductions' = runsAfter(calls[c].order, calls[c].items \ {item})
    /\ UNCHANGED <<products, orders, order_items, order_status_events, payments>>

\* lines 836-842: the PATCH of the product's stock, computed from the stock
\* read before.
deduct_patchProduct(c) ==
    LET item == calls[c].item
        rest == calls[c].items \ {item}
    IN  /\ At(c, "markOrderPaidFromWebhook", "patchProduct")
        /\ products' = [products EXCEPT ![item.sku].stock_cases =
                            nextStock(calls[c].current, item.qty)]
        /\ calls' = [calls EXCEPT ![c] =
               [calls[c] EXCEPT !.items = rest, !.item = NoItem, !.current = 0,
                                !.pc = loopOver(rest)]]
        /\ stockDeductions' = runsAfter(calls[c].order, rest)
        /\ UNCHANGED <<orders, order_items, order_status_events, payments>>

\* lines 875-884: the marker row is appended.
paid_insertMarker(c) ==
    /\ At(c, "markOrderPaidFromWebhook", "insertMarker")
    /\ order_status_events' = [order_status_events EXCEPT ![calls[c].order] =
           insertStatusEvents(@, stockMarkerEvents(FALSE))]
    /\ calls' = [calls EXCEPT ![c] = Goto(c, "patchPayment")]
    /\ UNCHANGED <<products, orders, order_items, payments, stockDeductions>>

\* lines 887-898: the PATCH of the payment row, which records the event.
paid_patchPayment(c) ==
    /\ At(c, "markOrderPaidFromWebhook", "patchPayment")
    /\ payments' = [payments EXCEPT ![calls[c].order] =
           paidPaymentRow(@, calls[c].checkoutSessionId, calls[c].paymentId,
                          calls[c].eventId)]
    /\ calls' = [calls EXCEPT ![c] = Goto(c, "insertConfirmed")]
    /\ UNCHANGED <<products, orders, order_items, order_status_events, stockDeductions>>

\* lines 900-911: the confirmation row is appended and the call returns.
paid_insertConfirmed(c) ==
    /\ At(c, "markOrderPaidFromWebhook", "insertConfirmed")
    /\ order_status_events' = [order_status_events EXCEPT ![calls[c].order] =
           insertStatusEvents(@,
               <<[status |-> "order_placed", note |-> NOTE_CONFIRMED, changed_by |-> ""]>>)]
    /\ calls' = [calls EXCEPT ![c] = Return(c, "paid")]
    /\ UNCHANGED <<products, orders, order_items, payments, stockDeductions>>

\* updateOrderStatus, lines 758-776: the call starts with the read of the
\* order row; the guard is decided on the row that was read.
status_readOrder(c, orderCode, nextStatusInput, actorProfile) ==
    LET nextStatus == uiStatusToDbStatus(nextStatusInput)
        id         == findOrderByCode(orderCode)
        call == [NoCall EXCEPT !.op = "updateOrderStatus",
                               !.orderCode = orderCode,
                               !.nextStatus = nextStatus,
                               !.profile = actorProfile]
    IN  /\ calls[c].op = ""
        /\ nextStatus # ""
        /\ calls' = [calls EXCEPT ![c] =
               IF id = NULL
               THEN [call EXCEPT !.pc = "threw", !.result = "Order not found."]
               ELSE IF unpaidQrph(orders[id]) /\ nextStatus \notin allowedBeforePayment
               THEN [call EXCEPT !.pc = "threw", !.result =
                        "Cannot move QRPH order status until payment is marked paid."]
               ELSE [call EXCEPT !.order = id, !.pc = "patchStatus"]]
        /\ UNCHANGED store

\* lines 778-783: the PATCH of the status.
status_patchStatus(c) ==
    /\ At(c, "updateOrderStatus", "patchStatus")
    /\ orders' = [orders EXCEPT ![calls[c].order].status = calls[c].nextStatus]
    /\ calls' = [calls EXCEPT ![c] = Goto(c, "insertEvent")]
    /\ UNCHANGED <<products, order_items, order_status_events, payments, stockDeductions>>

\* Mutation: an optimistic-lock check, the event is appended only while the
\* order still has the status this execution wrote.
status_insertEvent_Locked(c) ==
    /\ At(c, "updateOrderStatus", "insertEvent")
    /\ orders[calls[c].order].status = calls[c].nextStatus
    /\ order_status_events' = [order_status_events EXCEPT ![calls[c].order] =
           insertStatusEvents(@,
               <<[status |-> calls[c].nextStatus,
                  note |-> <<"Status updated to", toUiStatus(calls[c].nextStatus),
                             "by", calls[c].profile.role>>,
                  changed_by |-> calls[c].profile.user_id]>>)]
    /\ calls' = [calls EXCEPT ![c] = Return(c, "updated")]
    /\ UNCHANGED <<products, orders, order_items, payments, stockDeductions>>

\* lines 785-796: the status event is appended and the call returns.
status_insertEvent(c) ==
    /\ At(c, "updateOrderStatus", "insertEvent")
    /\ order_status_events' = [order_status_events EXCEPT ![calls[c].order] =
           insertStatusEvents(@,
               <<[status |-> calls[c].nextStatus,
                  note |-> <<"Status updated to", toUiStatus(calls[c].nextStatus),
                             "by", calls[c].profile.role>>,
                  changed_by |-> calls[c].profile.user_id]>>)]
    /\ calls' = [calls EXCEPT ![c] = Return(c, "updated")]
    /\ UNCHANGED <<products, orders, order_items, payments, stockDeductions>>

\* An order of these item rows placed with QRPH and awaiting payment; its
\* checkout session carries the order's code.
awaitingOrder(code, rows) ==
    LET subtotal == SumLineTotals(rows) IN
    [placedOrder(QRPH) EXCEPT !.subtotal = subtotal,
                              !.delivery_fee = deliveryFeeOf(subtotal),
                              !.total = subtotal + deliveryFeeOf(subtotal),
                              !.paymongo_checkout_session_id = code]

awaitingPayment(code, rows) ==
    LET subtotal == SumLineTotals(rows) IN
    [placedPayment(QRPH) EXCEPT !.amount = subtotal + deliveryFeeOf(subtotal),
                                !.provider_checkout_session_id = code]

\* The stores the overlapping executions start from: the catalog as stocked
\* at the start, and one order awaiting its QRPH payment, or two such orders
\* of the same product (createOrder reserves nothing, so both were accepted),
\* or one order placed cash on delivery.
InitOverlap ==
    /\ PAYMONGO_WEBHOOK_SECRET = LiveSecret
    /\ http = NoExchange
    /\ calls = NoCalls
    /\ products = catalog(InitialStock["P001"], TRUE)
    /\ \/ \E n \in 1..2 : \E qty \in [1..n -> 1..(MaxQty * MaxItems)] :
          /\ orders = [i \in 1..n |-> awaitingOrder(i, existingItemRows(qty[i]))]
          /\ order_items = [i \in 1..n |-> existingItemRows(qty[i])]
          /\ order_status_events = [i \in 1..n |-> placedEvents(QRPH)]
          /\ payments = [i \in 1..n |-> awaitingPayment(i, existingItemRows(qty[i]))]
          /\ stockDeductions = [i \in 1..n |-> 0]
       \/ /\ orders = <<placedOrder(COD)>>
          /\ order_items = <<existingItemRows(1)>>
          /\ order_status_events = <<placedEvents(COD)>>
          /\ payments = <<placedPayment(COD)>>
          /\ stockDeductions = <<0>>

\* A request arrives while earlier executions are still under way.
Arrives(c) == \A d \in Calls : d < c => calls[d].op # ""

OverlapMarkOrderPaid ==
    /\ \E c \in Calls :
         \/ /\ Arrives(c)
            /\ \E event \in GatewayEvents : paid_existingEvent(c, event)
         \/ paid_findOrder(c)
         \/ paid_patchOrder(c)
         \/ paid_hasNote(c)
         \/ paid_insertMarker(c)
         \/ paid_patchPayment(c)
         \/ paid_insertConfirmed(c)
    /\ UNCHANGED <<PAYMONGO_WEBHOOK_SECRET, http>>

OverlapDeductStock ==
    /\ \E c \in Calls :
         \/ deduct_readItems(c)
         \/ deduct_readProduct(c)
         \/ deduct_patchProduct(c)
    /\ UNCHANGED <<PAYMONGO_WEBHOOK_SECRET, http>>

OverlapUpdateOrderStatus ==
    /\ \E c \in Calls :
         \/ /\ Arrives(c)
            /\ \E orderCode \in 1..Len(orders), nextStatusInput \in StatusTargets,
                  actorProfile \in [user_id : Users, role : StaffRoles] :
                   status_readOrder(c, orderCode, nextStatusInput, actorProfile)
         \/ status_patchStatus(c)
         \/ status_insertEvent(c)
    /\ UNCHANGED <<PAYMONGO_WEBHOOK_SECRET, http>>

NextOverlap ==
    \/ OverlapMarkOrderPaid
    \/ OverlapDeductStock
    \/ OverlapUpdateOrderStatus

SpecOverlap == InitOverlap /\ [][NextOverlap]_vars

\* --------------------------------------------------- store calls that fail
\* createOrder, one step per awaited call.  Lines 624-668: the call starts
\* with the catalog read; the checks made on the rows read end it or build
\* the item rows, kept in items.
create_getProducts(c, payload, authProfile) ==
    LET error  == createOrderError(payload, authProfile)
        skuQty == skuQtyOf(payload.items)
        call   == [NoCall EXCEPT !.op = "createOrder", !.payload = payload,
                                 !.profile = authProfile]
    IN  /\ calls[c].op = ""
        /\ error = NoError
        /\ calls' = [calls EXCEPT ![c] =
               [call EXCEPT !.items = {itemRowOf(skuQty[k]) : k \in 1..Len(skuQty)},
                            !.pc = "insertOrder"]]
        /\ UNCHANGED store

\* The payment method of the call, "QRPH" when the payload names none.
paymentMethodOf(c) ==
    IF calls[c].payload.paymentMethod = <<>> THEN QRPH ELSE calls[c].payload.paymentMethod

\* A payment row not inserted yet.
NoPaymentRow ==
    [status |-> "", amount |-> 0, provider_event_id |-> NO_EVENT,
     provider_checkout_session_id |-> NULL, provider_payment_id |-> NULL]

\* lines 670-695: the order header is inserted; the order has no item row,
\* no status event and no payment row yet.
create_insertOrder(c) ==
    LET subtotal    == SumLineTotals(calls[c].items)
        deliveryFee == deliveryFeeOf(subtotal)
        useQrph     == isQrphMethod(paymentMethodOf(c))
    IN  /\ At(c, "createOrder", "insertOrder")
        /\ orders' = Append(orders,
               [user_id |-> calls[c].profile.user_id,
                subtotal |-> subtotal,
                delivery_fee |-> deliveryFee,
                total |-> subtotal + deliveryFee,
                status |-> IF useQrph THEN "pending_payment" ELSE "order_placed",
                payment_status |-> "pending",
                payment_method |-> paymentMethodOf(c),
                paymongo_checkout_session_id |-> NULL,
                paymongo_payment_id |-> NULL])
        /\ order_items' = Append(order_items, {})
        /\ order_status_events' = Append(order_status_events, <<>>)
        /\ payments' = Append(payments, NoPaymentRow)
        /\ stockDeductions' = Append(stockDeductions, 0)
        /\ calls' = [calls EXCEPT ![c] =
               [calls[c] EXCEPT !.order = Len(orders) + 1, !.pc = "insertItems"]]
        /\ UNCHANGED products

\* lines 697-702: the item rows are inserted.
create_insertItems(c) ==
    /\ At(c, "createOrder", "insertItems")
    /\ order_items' = [order_items EXCEPT ![calls[c].order] = calls[c].items]
    /\ calls' = [calls EXCEPT ![c] = Goto(c, "insertEvent")]
    /\ UNCHANGED <<products, orders, order_status_events, payments, stockDeductions>>

\* lines 704-713: the first status event is inserted.
create_insertEvent(c) ==
    LET useQrph == isQrphMethod(paymentMethodOf(c))
    IN  /\ At(c, "createOrder", "insertEvent")
        /\ order_status_events' = [order_status_events EXCEPT ![calls[c].order] =
               insertStatusEvents(@,
                   <<[status |-> IF useQrph THEN "pending_payment" ELSE "order_placed",
                      note |-> IF useQrph THEN NOTE_CREATED_QRPH ELSE NOTE_CREATED_WEB,
                      changed_by |-> ""]>>)]
        /\ calls' = [calls EXCEPT ![c] = Goto(c, "insertPayment")]
        /\ UNCHANGED <<products, orders, order_items, payments, stockDeductions>>

\* lines 715-723: the placeholder payment row is inserted; only a QRPH order
\* goes on to the gateway.
create_insertPayment(c) ==
    LET subtotal == SumLineTotals(calls[c].items)
        useQrph  == isQrphMethod(paymentMethodOf(c))
    IN  /\ At(c, "createOrder", "insertPayment")
        /\ payments' = [payments EXCEPT ![calls[c].order] =
               [NoPaymentRow EXCEPT !.status = "pending",
                                    !.amount = subtotal + deliveryFeeOf(subtotal)]]
        /\ calls' = [calls EXCEPT ![c] =
               Goto(c, IF useQrph THEN "createCheckout" ELSE "getOrder")]
        /\ UNCHANGED <<products, orders, order_items, order_status_events,
                       stockDeductions>>

\* lines 724-736, 512-537: the gateway opens a checkout session; its
\* identifier is kept in session.
create_createCheckout(c) ==
    /\ At(c, "createOrder", "createCheckout")
    /\ calls' = [calls EXCEPT ![c] =
           [calls[c] EXCEPT !.session = calls[c].order, !.pc = "patchOrder"]]
    /\ UNCHANGED store

\* lines 533-535: the gateway refuses, paymongoCreateCheckoutSession throws
\* and createOrder with it.
CHECKOUT_FAILED == "Failed to create PayMongo checkout session"

\* Mutation: the failure takes back the rows inserted for the order.
create_checkoutFails_RollBack(c) ==
    LET keep == Len(orders) - 1 IN
    /\ At(c, "createOrder", "createCheckout")
    /\ calls' = [calls EXCEPT ![c] = Throw(c, CHECKOUT_FAILED)]
    /\ orders' = SubSeq(orders, 1, keep)
    /\ order_items' = SubSeq(order_items, 1, keep)
    /\ order_status_events' = SubSeq(order_status_events, 1, keep)
    /\ payments' = SubSeq(payments, 1, keep)
    /\ stockDeductions' = SubSeq(stockDeductions, 1, keep)
    /\ UNCHANGED products

create_checkoutFails(c) ==
    /\ At(c, "createOrder", "createCheckout")
    /\ calls' = [calls EXCEPT ![c] = Throw(c, CHECKOUT_FAILED)]
    /\ UNCHANGED store

\* lines 737-743: the identifier is stored on the order.
create_patchOrder(c) ==
    /\ At(c, "createOrder", "patchOrder")
    /\ orders' = [orders EXCEPT ![calls[c].order].paymongo_checkout_session_id =
                      calls[c].session]
    /\ calls' = [calls EXCEPT ![c] = Goto(c, "patchPayment")]
    /\ UNCHANGED <<products, order_items, order_status_events, payments, stockDeductions>>

\* lines 744-750: and on the payment row.
create_patchPayment(c) ==
    /\ At(c, "createOrder", "patchPayment")
    /\ payments' = [payments EXCEPT ![calls[c].order].provider_checkout_session_id =
                        calls[c].session]
    /\ calls' = [calls EXCEPT ![c] = Goto(c, "getOrder")]
    /\ UNCHANGED <<products, orders, order_items, order_status_events, stockDeductions>>

\* lines 753-754: the order is read back and returned.
create_getOrder(c) ==
    /\ At(c, "createOrder", "getOrder")
    /\ calls' = [calls EXCEPT ![c] = Return(c, "created")]
    /\ UNCHANGED store

\* lines 114-117: the store answers a request with an error and
\* supabaseRequest throws; the handler has no catch, so the call ends there
\* and what it wrote before stays.
STORE_FAILED == "Supabase error"

supabaseRequestFails(c) ==
    /\ InFlight(c)
    /\ ~At(c, "createOrder", "createCheckout")
    /\ calls' = [calls EXCEPT ![c] = Throw(c, STORE_FAILED)]
    /\ UNCHANGED store

\* An order of qty cases of P001 and one case of P002.
twoProductRows(qty) ==
    existingItemRows(qty) \cup
    {[sku |-> "P002", unit_price |-> 400, qty |-> 1, line_total |-> 400]}

\* The stores the executions start from: no order yet, or one order awaiting
\* its QRPH payment, of one product or of two.
InitFailure ==
    /\ PAYMONGO_WEBHOOK_SECRET = LiveSecret
    /\ http = NoExchange
    /\ calls = NoCalls
    /\ products = catalog(InitialStock["P001"], TRUE)
    /\ \/ /\ orders = <<>>
          /\ order_items = <<>>
          /\ order_status_events = <<>>
          /\ payments = <<>>
          /\ stockDeductions = <<>>
       \/ \E qty \in 1..(MaxQty * MaxItems) :
          \E rows \in {existingItemRows(qty), twoProductRows(qty)} :
             /\ orders = <<awaitingOrder(1, rows)>>
             /\ order_items = <<rows>>
             /\ order_status_events = <<placedEvents(QRPH)>>
             /\ payments = <<awaitingPayment(1, rows)>>
             /\ stockDeductions = <<0>>

\* Here the requests do not overlap: one arrives when the one before is over.
ArrivesAlone(c) == Arrives(c) /\ \A d \in Calls : ~InFlight(d)

FailureCreateOrder ==
    /\ \E c \in Calls :
         \/ /\ ArrivesAlone(c)
            /\ Len(orders) < MaxOrders
            /\ \E payload \in HttpPayloads, authProfile \in AuthProfiles :
                   create_getProducts(c, payload, authProfile)
         \/ create_insertOrder(c)
         \/ create_insertItems(c)
         \/ create_insertEvent(c)
         \/ create_insertPayment(c)
         \/ create_createCheckout(c)
         \/ create_patchOrder(c)
         \/ create_patchPayment(c)
         \/ create_getOrder(c)
    /\ UNCHANGED <<PAYMONGO_WEBHOOK_SECRET, http>>

FailureMarkOrderPaid ==
    /\ \E c \in Calls :
         \/ /\ ArrivesAlone(c)
            /\ \E event \in GatewayEvents : paid_existingEvent(c, event)
         \/ paid_findOrder(c)
         \/ paid_patchOrder(c)
         \/ paid_hasNote(c)
         \/ deduct_readItems(c)
         \/ deduct_readProduct(c)
         \/ deduct_patchProduct(c)
         \/ paid_insertMarker(c)
         \/ paid_patchPayment(c)
         \/ paid_insertConfirmed(c)
    /\ UNCHANGED <<PAYMONGO_WEBHOOK_SECRET, http>>

CallFails ==
    /\ \E c \in Calls : create_checkoutFails(c) \/ supabaseRequestFails(c)
    /\ UNCHANGED <<PAYMONGO_WEBHOOK_SECRET, http>>

NextFailure ==
    \/ FailureCreateOrder
    \/ FailureMarkOrderPaid
    \/ CallFails

SpecFailure == InitFailure /\ [][NextFailure]_vars

\* ------------------------------------------------------------------ claims
OrderIds == 1..Len(orders)

\* The identifiers gateway events carry.
EventIds == (0..MaxOrders) \X {1, 2}

IsMarked(id) ==
    \E k \in 1..Len(order_status_events[id]) :
        order_status_events[id][k].note = STOCK_MARKER_NOTE

ConfirmationNotes(id) ==
    SelectSeq(order_status_events[id], LAMBDA e : e.note = NOTE_CONFIRMED)

\* The step is a createOrder that inserted an order.
Creates == Len(orders') = Len(orders) + 1

\* The step is a markOrderPaidFromWebhook that wrote to order id: only that
\* handler ends an order's log with the confirmation note.
Confirms(id) ==
    /\ id \in OrderIds
    /\ Len(order_status_events'[id]) > Len(order_status_events[id])
    /\ order_status_events'[id][Len(order_status_events'[id])].note = NOTE_CONFIRMED

\* The step is an updateOrderStatus that wrote to order id: only that
\* handler signs the event it appends.
Updates(id) ==
    /\ id \in OrderIds
    /\ Len(order_status_events'[id]) = Len(order_status_events[id]) + 1
    /\ order_status_events'[id][Len(order_status_events'[id])].changed_by # ""

\* C1: a markOrderPaidFromWebhook that writes is for an event no payment row
\* had recorded; once it has marked the order paid, a call for the same event
\* identifier, whatever resource it names, ends as "duplicate" (the early
\* return that writes nothing: not the order status, the payment status, the
\* payment row, the status events or the stock), and the order's quantities
\* have been deducted exactly once.
C1_SameEventTwice ==
    [][ \A id \in 1..MaxOrders, e \in EventIds :
        ( Confirms(id) /\ payments'[id].provider_event_id = e )
        => ( /\ ~ (\E i \in OrderIds : payments[i].provider_event_id = e)
             /\ \A c \in 0..MaxOrders, cs \in 0..MaxOrders :
                   markOrderPaidOutcome(c, cs, e)' = "duplicate"
             /\ stockDeductions'[id] = 1 ) ]_vars

C1_Witness ==
    \E id \in OrderIds :
        /\ payments[id].status = "paid"
        /\ orders[id].payment_status = "paid"
        /\ markOrderPaidOutcome(id, id, payments[id].provider_event_id) = "duplicate"
        /\ stockDeductions[id] = 1
        /\ \E row \in order_items[id] :
              products[row.sku].stock_cases = InitialStock[row.sku] - row.qty

\* C2: for an order whose method is QRPH and whose payment status is not
\* paid, an updateOrderStatus request with a status other than pending_payment
\* or cancelled as its target is answered 409, and no updateOrderStatus step
\* changes the order row or the status-event log of such an order unless its
\* target is one of those two.
C2_UnpaidQrphGuard ==
    /\ [](\A id \in OrderIds, input \in StatusInputs :
            ( /\ orders[id].payment_method = QRPH
              /\ orders[id].payment_status # "paid"
              /\ uiStatusToDbStatus(input) \in
                     DbStatuses \ {"pending_payment", "cancelled"} )
            => updateOrderStatusStatus(id, input) = 409)
    /\ [][ \A id \in 1..MaxOrders :
           ( /\ id \in OrderIds
             /\ orders[id].payment_method = QRPH
             /\ orders[id].payment_status # "paid"
             /\ ~ Confirms(id) )
           => \/ /\ orders'[id] = orders[id]
                 /\ order_status_events'[id] = order_status_events[id]
              \/ /\ Updates(id)
                 /\ orders'[id].status \in {"pending_payment", "cancelled"} ]_vars

\* An unpaid QRPH order was cancelled, and moving it on is still refused.
C2_Witness ==
    \E id \in OrderIds :
        /\ orders[id].payment_method = QRPH
        /\ orders[id].payment_status = "pending"
        /\ orders[id].status = "cancelled"
        /\ Len(order_status_events[id]) = 2
        /\ updateOrderStatusStatus(id, "Preparing") = 409
        /\ updateOrderStatusStatus(id, "delivered") = 409

\* C3 (as claimed): every updateOrderStatus that writes moves the order to the
\* immediate successor of its status in the chain, or from a status other
\* than delivered and cancelled to cancelled.
successor(status) ==
    CASE status = "pending_payment"  -> "order_placed"
      [] status = "order_placed"     -> "preparing"
      [] status = "preparing"        -> "in_transit"
      [] status = "in_transit"       -> "out_for_delivery"
      [] status = "out_for_delivery" -> "delivered"
      [] OTHER                       -> "none"

C3_ChainOnly ==
    [][ \A id \in 1..MaxOrders :
        Updates(id)
        => LET from == orders[id].status
               to   == orders'[id].status
           IN  \/ to = successor(from)
               \/ to = "cancelled" /\ from \notin {"delivered", "cancelled"} ]_vars

\* C4 (as claimed): once an order's status is cancelled no step changes it.
C4_CancelledTerminal ==
    [][ \A id \in OrderIds :
            orders[id].status = "cancelled" => orders'[id].status = "cancelled" ]_vars

\* C5: when markOrderPaidFromWebhook writes to a QRPH order that is in
\* pending_payment with payment status pending, the order becomes paid and
\* order_placed, the stock of each ordered product drops by the ordered
\* quantity (not below zero) and no other stock moves; updateOrderStatus to
\* preparing is answered with the 409 conflict before the step and accepted
\* after it.
C5_ConfirmationUnblocks ==
    [][ \A id \in 1..MaxOrders :
        ( /\ Confirms(id)
          /\ orders[id].payment_method = QRPH
          /\ orders[id].status = "pending_payment"
          /\ orders[id].payment_status = "pending" )
        => /\ orders'[id].payment_status = "paid"
           /\ orders'[id].status = "order_placed"
           /\ \A row \in order_items[id] :
                 products'[row.sku].stock_cases =
                     IF products[row.sku].stock_cases >= row.qty
                     THEN products[row.sku].stock_cases - row.qty ELSE 0
           /\ \A sku \in SKUs :
                 (\A row \in order_items[id] : row.sku # sku)
                     => products'[sku] = products[sku]
           /\ updateOrderStatusStatus(id, "preparing") = 409
           /\ updateOrderStatusStatus(id, "preparing")' = 200 ]_vars

\* A confirmed QRPH order that staff then moved to preparing.
C5_Witness ==
    \E id \in OrderIds :
        /\ orders[id].payment_method = QRPH
        /\ orders[id].status = "preparing"
        /\ orders[id].payment_status = "paid"
        /\ IsMarked(id)
        /\ order_status_events[id][Len(order_status_events[id])].changed_by # ""
        /\ \A row \in order_items[id] :
              products[row.sku].stock_cases = InitialStock[row.sku] - row.qty

\* C6: however many confirmations with different event identifiers an order
\* receives, its quantities are deducted once: the deduction ran once if the
\* marker note is in the order's log and never otherwise, a paid order has
\* the marker, and each product's stock is its initial stock less the
\* quantities of the orders that were confirmed (not below zero).
orderedQty(id, sku) ==
    IF \E row \in order_items[id] : row.sku = sku
    THEN (CHOOSE row \in order_items[id] : row.sku = sku).qty
    ELSE 0

RECURSIVE confirmedQty(_, _)
confirmedQty(sku, n) ==
    IF n = 0 THEN 0
    ELSE confirmedQty(sku, n - 1) +
         (IF orders[n].payment_status = "paid" THEN orderedQty(n, sku) ELSE 0)

C6_DeductedOnce ==
    /\ \A id \in OrderIds :
          /\ stockDeductions[id] = IF IsMarked(id) THEN 1 ELSE 0
          /\ orders[id].payment_status = "paid" => IsMarked(id)
    /\ \A sku \in SKUs :
          products[sku].stock_cases =
              Max(0, InitialStock[sku] - confirmedQty(sku, Len(orders)))

C6_Witness ==
    \E id \in OrderIds :
        /\ Len(ConfirmationNotes(id)) = 2
        /\ payments[id].provider_event_id[2] = 2
        /\ stockDeductions[id] = 1
        /\ \E row \in order_items[id] :
              products[row.sku].stock_cases = InitialStock[row.sku] - row.qty

\* C7: stock never goes below zero, and a deduction of quantity q from a
\* product whose stock is s leaves s - q when s >= q and 0 otherwise: each
\* step in which deductStockForOrder runs for an order sets the stock of
\* every product of the order to that value.
C7_StockFloor ==
    /\ [](\A sku \in SKUs : products[sku].stock_cases >= 0)
    /\ [][ \A id \in 1..MaxOrders :
           ( /\ id \in OrderIds
             /\ stockDeductions'[id] = stockDeductions[id] + 1 )
           => \A row \in order_items[id] :
                 LET s == products[row.sku].stock_cases
                     q == row.qty
                 IN  /\ s >= q => products'[row.sku].stock_cases = s - q
                     /\ s < q  => products'[row.sku].stock_cases = 0 ]_vars

\* The order asked for more than was left and its deduction ended at zero.
C7_Witness ==
    \E id \in OrderIds :
        /\ stockDeductions[id] = 1
        /\ orders[id].payment_status = "paid"
        /\ \E row \in order_items[id] :
              /\ row.qty = 2
              /\ products[row.sku].stock_cases = 0

\* C8: every stored order has total = subtotal + delivery fee and subtotal =
\* the sum over its item rows of unit price times quantity, whatever the
\* catalog prices are now; and createOrder takes each item's unit price from
\* the catalog as it is when the order is created, not from the payload.
RECURSIVE SumPriceTimesQty(_)
SumPriceTimesQty(rows) ==
    IF rows = {} THEN 0
    ELSE LET r == CHOOSE x \in rows : TRUE
         IN  r.unit_price * r.qty + SumPriceTimesQty(rows \ {r})

C8_OrderTotals ==
    /\ [](\A id \in OrderIds :
             /\ orders[id].total = orders[id].subtotal + orders[id].delivery_fee
             /\ orders[id].subtotal = SumPriceTimesQty(order_items[id])
             /\ \A row \in order_items[id] : row.line_total = row.unit_price * row.qty)
    /\ [][ Creates
           => \A row \in order_items'[Len(orders')] :
                 row.unit_price = products[row.sku].price ]_vars

\* An order holds a price the catalog no longer has.
C8_Witness ==
    \E id \in OrderIds :
        /\ Cardinality(order_items[id]) = 2
        /\ \E row \in order_items[id] :
              /\ row.unit_price # products[row.sku].price
              /\ row.unit_price = 400
        /\ orders[id].subtotal = 800
        /\ orders[id].total = 800

\* C9 (as claimed): the stored delivery fee is 0 for a subtotal of 0, 60 for
\* a subtotal above 0 and below 800, and 0 from 800 on.
C9_FeeStepFunction ==
    \A id \in OrderIds :
        orders[id].delivery_fee =
            IF orders[id].subtotal = 0 THEN 0
            ELSE IF orders[id].subtotal < 800 THEN 60
            ELSE 0

\* C10: createOrder inserts the order as pending_payment when its payment
\* method is QRPH and as order_placed otherwise, with payment status pending,
\* and gives it a log of exactly one event, whose status is the order's.
C10_InitialStatus ==
    [][ Creates
        => LET id == Len(orders) + 1 IN
           /\ orders'[id].payment_method \in {QRPH, COD}
           /\ orders'[id].status = IF orders'[id].payment_method = QRPH
                                   THEN "pending_payment" ELSE "order_placed"
           /\ orders'[id].payment_status = "pending"
           /\ Len(order_status_events'[id]) = 1
           /\ order_status_events'[id][1].status = orders'[id].status ]_vars

\* A QRPH order as createOrder left it.
C10_Witness ==
    \E id \in OrderIds :
        /\ orders[id].payment_method = QRPH
        /\ orders[id].status = "pending_payment"
        /\ orders[id].payment_status = "pending"
        /\ payments[id].status = "pending"
        /\ Len(order_status_events[id]) = 1

\* C11 (as claimed): in every state an order whose status is pending_payment
\* has QRPH as its payment method.
C11_PendingPaymentOnlyQrph ==
    \A id \in OrderIds :
        orders[id].status = "pending_payment" => orders[id].payment_method = QRPH

\* The step is an exchange on the endpoint.
Answered(endpoint) == http'.n = http.n + 1 /\ http'.endpoint = endpoint

\* C12 (as claimed): whenever the webhook endpoint answers a request whose
\* verification did not succeed, the verifier returned false, the response
\* is 401 and no row of the store changed.
C12_UnverifiedIs401 ==
    [][ ( Answered("POST /api/paymongo/webhook") /\ http'.verified # "true" )
        => ( /\ http'.verified = "false"
             /\ http'.status = 401
             /\ store' = store ) ]_vars

\* C13: with the secret configured, verifyPaymongoWebhookSignature answers
\* true exactly when the parsed header has a timestamp and one of its
\* candidates te, li is present and equals the HMAC of the timestamp and the
\* raw body under the secret; a header that verifies for a body verifies for
\* no other body.
tampered(rawBody) ==
    {[rawBody EXCEPT !.payment_id = 9], [rawBody EXCEPT !.type = "payment.refunded"],
     [rawBody EXCEPT !.order_code = 9]}

C13_VerifiesExactly ==
    PAYMONGO_WEBHOOK_SECRET = LiveSecret =>
        \A rawBody \in RawBodies : \A headerValue \in SignatureHeaders(rawBody) :
            LET sig == parsePaymongoSignature(headerValue) IN
            /\ verifyPaymongoWebhookSignature(rawBody, headerValue) \in {"true", "false"}
            /\ verifyPaymongoWebhookSignature(rawBody, headerValue) = "true"
                  <=> ( /\ sig.t # NoValue
                        /\ \E c \in {sig.te, sig.li} :
                              /\ c # NoValue
                              /\ c = hmacSha256Hex(LiveSecret, sig.t, rawBody) )
            /\ verifyPaymongoWebhookSignature(rawBody, headerValue) = "true"
                  => \A other \in tampered(rawBody) :
                        verifyPaymongoWebhookSignature(other, headerValue) = "false"

\* The endpoint accepted a delivery and marked the order paid.
C13_Witness ==
    /\ http.endpoint = "POST /api/paymongo/webhook"
    /\ http.verified = "true"
    /\ http.outcome = "paid"
    /\ PAYMONGO_WEBHOOK_SECRET = LiveSecret
    /\ \E id \in OrderIds : orders[id].payment_status = "paid"

\* C14 (as claimed): every request to the webhook endpoint whose signature
\* verifies is answered 200.
C14_VerifiedIs200 ==
    [][ ( Answered("POST /api/paymongo/webhook") /\ http'.verified = "true" )
        => http'.status = 200 ]_vars

\* C15: a PATCH /api/orders/:code/status whose token belongs to a profile
\* with a role other than staff and admin is answered 403 "Forbidden",
\* whatever order code and status it names and whether or not the order
\* exists, and changes no row of the store.
C15_PatchForbidden ==
    [][ \A header \in AuthorizationHeaders, orderCode \in 1..MaxOrders,
           status \in StatusInputs :
        ( /\ Answered("PATCH /api/orders/:code/status")
          /\ getProfileByUserId(supabaseAuthUser(getBearerToken(header))).role
                 \notin {"", "staff", "admin"}
          /\ PatchOrderStatus(header, orderCode, status) )
        => ( /\ http'.status = 403
             /\ http'.error = "Forbidden"
             /\ http'.outcome = ""
             /\ store' = store ) ]_vars

\* A customer asked to move an existing cash-on-delivery order and was refused.
C15_Witness ==
    /\ http.endpoint = "PATCH /api/orders/:code/status"
    /\ http.auth = "forbidden"
    /\ http.status = 403
    /\ http.orderCode \in OrderIds
    /\ orders[http.orderCode].payment_method = COD
    /\ orders[http.orderCode].status = "order_placed"

\* C16 (as claimed): an exchange on an endpoint guarded by requireAuth whose
\* bearer token is missing or is not accepted by the auth service is answered
\* 401 and leaves the store as it was.
C16_BadTokenIs401 ==
    [][ ( /\ http'.n = http.n + 1
          /\ http'.auth \in {"missing token", "invalid token"} )
        => ( http'.status = 401 /\ store' = store ) ]_vars

\* C17: a POST /api/orders that passes requireAuth with a payload that fails
\* validation (customer name, contact or address empty; no item; an item
\* with no SKU or a quantity of zero or less; a SKU the catalog does not
\* have; a product that is not active; a product with less stock than the
\* quantity asked for it in total) is answered with an error and inserts no
\* order, order item, status event or payment row, and no checkout session
\* identifier is stored.
RECURSIVE requestedQty(_, _)
requestedQty(items, sku) ==
    IF items = <<>> THEN 0
    ELSE (IF Head(items).productId = sku THEN Head(items).qty ELSE 0)
         + requestedQty(Tail(items), sku)

failsValidation(payload) ==
    \/ payload.customerName = "" \/ payload.contact = "" \/ payload.address = ""
    \/ payload.items = <<>>
    \/ \E k \in 1..Len(payload.items) :
          \/ payload.items[k].productId = ""
          \/ payload.items[k].qty <= 0
          \/ payload.items[k].productId \notin DOMAIN products
          \/ ~ products[payload.items[k].productId].is_active
          \/ products[payload.items[k].productId].stock_cases
                 < requestedQty(payload.items, payload.items[k].productId)

C17_InvalidWritesNothing ==
    [][ Answered("POST /api/orders")
        => \A header \in AuthorizationHeaders, payload \in HttpPayloads :
        ( /\ requireAuth(header, {"customer", "admin", "staff"}).auth = "ok"
          /\ failsValidation(payload)
          /\ PostOrders(header, payload) )
        => ( /\ http'.outcome = "error"
             /\ http'.status = 500
             /\ store' = store ) ]_vars

\* The cart asked for two cases of a product that has one, and nothing was
\* stored.
C17_Witness ==
    /\ http.endpoint = "POST /api/orders"
    /\ http.auth = "ok"
    /\ http.outcome = "error"
    /\ http.error = "has insufficient stock."
    /\ orders = <<>> /\ order_items = <<>> /\ payments = <<>>
    /\ order_status_events = <<>>

\* Payloads with every customer field and well-formed items: those whose
\* fate the catalog decides.
CatalogPayloads ==
    {pl \in Payloads :
        /\ pl.customerName # "" /\ pl.contact # "" /\ pl.address # ""
        /\ pl.items # <<>>
        /\ \A k \in 1..Len(pl.items) :
              pl.items[k].productId # "" /\ pl.items[k].qty > 0}

requestedSkus(payload) ==
    {payload.items[k].productId : k \in 1..Len(payload.items)}

unresolved(payload) == requestedSkus(payload) \ DOMAIN products

\* The products of the payload that are inactive, or have less stock than
\* the quantity asked for them in total.
unavailable(payload) ==
    {sku \in requestedSkus(payload) \cap DOMAIN products :
        \/ ~ products[sku].is_active
        \/ products[sku].stock_cases < requestedQty(payload.items, sku)}

Customer == [user_id |-> "u1", role |-> "customer"]

C19_DuplicatesMerged ==
    /\ [][ http'.outcome = "created"
           => \A header \in AuthorizationHeaders, payload \in HttpPayloads :
           PostOrders(header, payload)
           => LET rows == order_items'[Len(orders')] IN
              /\ Cardinality(rows) = Cardinality(requestedSkus(payload))
              /\ \A sku \in requestedSkus(payload) :
                    \E row \in rows :
                        /\ row.sku = sku
                        /\ row.qty = requestedQty(payload.items, sku) ]_vars
    /\ [](\A payload \in CatalogPayloads :
            ( /\ unresolved(payload) = {}
              /\ \A sku \in requestedSkus(payload) : products[sku].is_active
              /\ \A k \in 1..Len(payload.items) :
                    payload.items[k].qty
                        <= products[payload.items[k].productId].stock_cases
              /\ \E sku \in requestedSkus(payload) :
                    requestedQty(payload.items, sku) > products[sku].stock_cases )
            => createOrderError(payload, Customer).message = "has insufficient stock.")

\* Two lines of one case of P001 became one row of two cases.
C19_Witness ==
    /\ http.endpoint = "POST /api/orders"
    /\ http.outcome = "created"
    /\ order_items[http.orderCode] =
          {[sku |-> "P001", unit_price |-> 400, qty |-> 2, line_total |-> 800]}
    /\ orders[http.orderCode].subtotal = 800

\* C20: the status-event log of every order is append-only: in every step
\* the log of each existing order begins with the log it had before the step.
C20_LogAppendOnly ==
    [][ \A id \in 1..MaxOrders :
        id \in OrderIds
        => /\ Len(order_status_events') >= id
           /\ Len(order_status_events'[id]) >= Len(order_status_events[id])
           /\ SubSeq(order_status_events'[id], 1, Len(order_status_events[id]))
                 = order_status_events[id] ]_vars

\* An order's log after createOrder, a confirmation and an update.
C20_Witness ==
    \E id \in OrderIds :
        /\ Len(order_status_events[id]) = 4
        /\ order_status_events[id][1].note = NOTE_CREATED_QRPH
        /\ order_status_events[id][2].note = STOCK_MARKER_NOTE
        /\ order_status_events[id][3].note = NOTE_CONFIRMED
        /\ order_status_events[id][4].changed_by # ""

\* The execution is over: it returned or threw.
Ended(c) == calls[c].pc \in {"returned", "threw"}

\* Both executions are markOrderPaidFromWebhook for one event identifier.
SameEventTwice ==
    /\ \A c \in Calls : calls[c].op = "markOrderPaidFromWebhook"
    /\ \A c, d \in Calls : calls[c].eventId = calls[d].eventId

\* C21: when the gateway delivers one paid event twice and the two executions
\* of markOrderPaidFromWebhook overlap, then however their store calls
\* interleave, once both are over the order's quantities have been deducted
\* from the stock exactly once: every product of the order stands at its
\* initial stock less the ordered quantity (floored at zero), and
\* deductStockForOrder has run once for the order.
C21_OverlappingDeliveriesDeductOnce ==
    \A id \in OrderIds :
        ( /\ SameEventTwice
          /\ \A c \in Calls : Ended(c)
          /\ \E c \in Calls : calls[c].order = id /\ calls[c].result = "paid" )
        => /\ stockDeductions[id] = 1
           /\ \A sku \in SKUs :
                 products[sku].stock_cases =
                     nextStock(InitialStock[sku], orderedQty(id, sku))

\* C22: when an execution of markOrderPaidFromWebhook ends in a failed store
\* call after its duplicate check (also in the middle of the loop of
\* deductStockForOrder) and the gateway delivers the event again, the two
\* attempts together deduct the order's quantities at most once: no product
\* of the order stands below its initial stock less the ordered quantity.
C22_RedeliveryAfterFailureDeductsOnce ==
    \A id \in OrderIds :
        ( /\ SameEventTwice
          /\ calls[1].pc = "threw" /\ calls[1].result = STORE_FAILED
          /\ calls[1].order = id
          /\ calls[2].order = id )
        => \A sku \in SKUs :
              products[sku].stock_cases >=
                  nextStock(InitialStock[sku], orderedQty(id, sku))

\* C23: in every state reached by interleaved executions of updateOrderStatus
\* and markOrderPaidFromWebhook, an order whose payment method is QRPH and
\* whose payment status is not paid has status pending_payment or cancelled.
C23_UnpaidQrphStatus ==
    \A id \in OrderIds :
        (isQrphMethod(orders[id].payment_method) /\ orders[id].payment_status # "paid")
        => orders[id].status \in {"pending_payment", "cancelled"}

\* An update to cancelled has gone through on an unpaid QRPH order while a
\* confirmation of that order was under way, about to PATCH the order.
C23_Witness ==
    \E id \in OrderIds : \E c, d \in Calls :
        /\ orders[id].payment_status # "paid"
        /\ orders[id].status = "cancelled"
        /\ calls[c].op = "updateOrderStatus" /\ calls[c].order = id
        /\ calls[c].result = "updated"
        /\ calls[d].op = "markOrderPaidFromWebhook" /\ calls[d].pc = "patchOrder"
        /\ calls[d].order = id

\* Both executions are markOrderPaidFromWebhook, for two different orders,
\* and both have returned after writing.
TwoOrdersConfirmed ==
    /\ \A c \in Calls : calls[c].op = "markOrderPaidFromWebhook" /\ calls[c].result = "paid"
    /\ calls[1].order # calls[2].order

\* C24: when the payments of two different orders of one product are
\* confirmed by overlapping executions of markOrderPaidFromWebhook, the
\* product's stock after both is the stock after the two deductions applied
\* one after the other, max(0, max(0, s - q1) - q2), however the store calls
\* interleave.
C24_NoLostDeduction ==
    TwoOrdersConfirmed
    => \A sku \in SKUs :
          products[sku].stock_cases =
              nextStock(nextStock(InitialStock[sku], orderedQty(calls[1].order, sku)),
                        orderedQty(calls[2].order, sku))

\* The status of the last event appended for the order.
lastEventStatus(log) == log[Len(log)].status

\* C25: two overlapping updateOrderStatus requests on one order are not
\* serialized.  When execution c has PATCHed its status and not yet appended
\* its event, and execution d has since PATCHed another status and returned,
\* nothing holds c back: its INSERT can be taken, it succeeds, and it leaves
\* the order with d's status while the last event of the order records c's.
C25_UpdatesNotSerialized ==
    \A c, d \in Calls :
        ( /\ c # d
          /\ At(c, "updateOrderStatus", "insertEvent")
          /\ calls[d].op = "updateOrderStatus" /\ calls[d].result = "updated"
          /\ calls[d].order = calls[c].order
          /\ calls[d].nextStatus # calls[c].nextStatus
          /\ orders[calls[c].order].status = calls[d].nextStatus )
        => ENABLED ( /\ status_insertEvent(c)
                     /\ calls'[c].result = "updated"
                     /\ orders'[calls[c].order].status = calls[d].nextStatus
                     /\ lastEventStatus(order_status_events'[calls[c].order])
                            = calls[c].nextStatus )

\* Both requests have succeeded and the order's status is not the status of
\* its last event.
C25_Witness ==
    \E id \in OrderIds :
        /\ \A c \in Calls : /\ calls[c].op = "updateOrderStatus"
                            /\ calls[c].result = "updated"
                            /\ calls[c].order = id
        /\ orders[id].status # lastEventStatus(order_status_events[id])

\* C26: when the handlers run one after the other and no store call fails,
\* after every completed createOrder, updateOrderStatus and
\* markOrderPaidFromWebhook the status of each order is the status recorded
\* in the event appended last for it.
C26_StatusIsLastEvent ==
    \A id \in OrderIds :
        /\ Len(order_status_events[id]) >= 1
        /\ orders[id].status = lastEventStatus(order_status_events[id])

\* An order that was created, cancelled, confirmed paid and then moved on.
C26_Witness ==
    \E id \in OrderIds :
        /\ orders[id].payment_status = "paid"
        /\ IsMarked(id)
        /\ \E k \in 1..Len(order_status_events[id]) :
              order_status_events[id][k].status = "cancelled"
        /\ orders[id].status = "order_placed"
        /\ Len(order_status_events[id]) = 4

\* The execution is a createOrder that ended in the gateway's refusal.
CheckoutFailed(c) ==
    /\ calls[c].op = "createOrder"
    /\ calls[c].pc = "threw"
    /\ calls[c].result = CHECKOUT_FAILED

\* C27: when the creation of the checkout session fails during createOrder
\* for a QRPH order, createOrder ends with an error and the rows it had
\* inserted stay: the order header with status pending_payment, the item
\* rows, the first status event and the pending payment row, with no
\* checkout-session identifier stored on the order or the payment.
C27_CheckoutFailureKeepsRows ==
    \A c \in Calls :
        CheckoutFailed(c) =>
            LET id == calls[c].order IN
            /\ id \in OrderIds
            /\ isQrphMethod(orders[id].payment_method)
            /\ orders[id].status = "pending_payment"
            /\ orders[id].payment_status = "pending"
            /\ orders[id].paymongo_checkout_session_id = NULL
            /\ order_items[id] = calls[c].items
            /\ order_items[id] # {}
            /\ order_status_events[id] =
                   <<[status |-> "pending_payment", note |-> NOTE_CREATED_QRPH,
                      changed_by |-> ""]>>
            /\ payments[id].status = "pending"
            /\ payments[id].amount = orders[id].total
            /\ payments[id].provider_checkout_session_id = NULL

\* A createOrder for two cart lines of one product has ended in the
\* gateway's refusal.
C27_Witness ==
    \E c \in Calls :
        /\ CheckoutFailed(c)
        /\ \E row \in order_items[calls[c].order] : row.qty = 2
        /\ Len(orders) = 1

\* The step leaves every product's stock as it was.
StockUnchanged ==
    \A sku \in SKUs : products'[sku].stock_cases = products[sku].stock_cases

\* C28: createOrder and updateOrderStatus never change a product's stock;
\* only markOrderPaidFromWebhook does, for the QRPH order it confirms.  So
\* creating an order reserves nothing, and an order whose payment method is
\* not QRPH has had no deduction at any point of its life, delivered
\* included.
C28_OnlyConfirmationChangesStock ==
    /\ [][ /\ Creates => StockUnchanged
           /\ \A id \in OrderIds : Updates(id) => StockUnchanged
           /\ ~StockUnchanged =>
                 \E id \in OrderIds :
                    /\ Confirms(id)
                    /\ isQrphMethod(orders[id].payment_method) ]_vars
    /\ [](\A id \in OrderIds :
             ~isQrphMethod(orders[id].payment_method) =>
                 /\ stockDeductions[id] = 0
                 /\ orders[id].payment_status = "pending"
                 /\ ~IsMarked(id))

\* A cash-on-delivery order has been delivered and the stock of what it
\* ordered stands where it stood.
C28_Witness ==
    \E id \in OrderIds :
        /\ ~isQrphMethod(orders[id].payment_method)
        /\ orders[id].status = "delivered"
        /\ \E row \in order_items[id] :
              products[row.sku].stock_cases = InitialStock[row.sku]

\* C29: an order's payment status only moves forward.  createOrder inserts
\* the order with payment status pending, and an order that is paid is paid
\* after every step, whatever updateOrderStatus calls (to cancelled
\* included) and webhook deliveries follow.
C29_PaymentStatusMonotone ==
    /\ [](\A id \in OrderIds : orders[id].payment_status \in {"pending", "paid"})
    /\ [][ /\ Creates => orders'[Len(orders')].payment_status = "pending"
           /\ \A id \in OrderIds :
                 orders[id].payment_status = "paid"
                 => orders'[id].payment_status = "paid" ]_vars

\* A paid order has been cancelled since and is still paid.
C29_Witness ==
    \E id \in OrderIds :
        /\ orders[id].payment_status = "paid"
        /\ orders[id].status = "cancelled"
        /\ lastEventStatus(order_status_events[id]) = "cancelled"
        /\ IsMarked(id)

\* The user the request is made for; "" when requireAuth refuses it.
requester(header) == requireAuth(header, {}).profile.user_id

\* What the client sees of an answer.
body(answer) == <<answer.status, answer.error, answer.orders>>

\* C30: GET /api/orders and GET /api/orders/:code return only orders whose
\* user_id is the requester's, whatever the requester's role; and a request
\* for the code of an order of another user is answered with the same 404
\* body as a request for a code no order has.
C30_OwnOrdersOnly ==
    [][ /\ Answered("GET /api/orders") =>
              \A header \in AuthorizationHeaders :
                  GetOrders(header) =>
                      \A id \in http'.orders : orders[id].user_id = requester(header)
        /\ Answered("GET /api/orders/:code") =>
              \A header \in AuthorizationHeaders, orderCode \in 1..(MaxOrders + 1) :
                  GetOrder(header, orderCode) =>
                      /\ \A id \in http'.orders :
                            id = orderCode /\ orders[id].user_id = requester(header)
                      /\ ( /\ http'.auth = "ok"
                           /\ orderCode \in OrderIds
                           /\ orders[orderCode].user_id # requester(header) )
                         => /\ http'.status = 404
                            /\ \A missing \in (1..(MaxOrders + 1)) \ OrderIds :
                                  body(http') = body(getOrderAnswer(header, missing))
      ]_vars

\* A member of staff asked for the order of a customer and was answered 404.
C30_Witness ==
    /\ http.endpoint = "GET /api/orders/:code"
    /\ http.auth = "ok"
    /\ http.orderCode \in OrderIds
    /\ http.status = 404
    /\ http.orders = {}
    /\ (1..(MaxOrders + 1)) \ OrderIds # {}

====
